---------------------------- MODULE Spec2Model ----------------------------
(***************************************************************************)
(* Model of muuuxy's request pipeline: the `proxy` handler of              *)
(* src/src/main.rs (parameter validation, DNS-resolved address guard,      *)
(* hardened upstream fetch, playlist detection and URI rewriting).         *)
(*                                                                         *)
(* Text is modelled as a sequence of lexical tokens: a maximal run of      *)
(* ASCII alphanumerics is one token (a "word"), every other character is   *)
(* a token of its own (":", "/", ".", "?", "#", "=", "&", "%", " ").       *)
(* Concatenation of text is concatenation of token sequences, and every    *)
(* character-level operation of the code used here (searching '/',         *)
(* truncating, percent-encoding each non-alphanumeric byte) acts on whole  *)
(* tokens.                                                                 *)
(*                                                                         *)
(* The handler is one async function; it is split at its three await       *)
(* points (lookup_host, send, bytes) into four steps.  A panic (an         *)
(* `unwrap` on Err/None) ends the handler task without a response and is   *)
(* the terminal position "panic".                                          *)
(*                                                                         *)
(* One request is followed from entry to its end; requests share only the  *)
(* read-only State.  The server runs with its default public scheme and    *)
(* domain and without an outbound proxy (state.proxy = None).  The         *)
(* resolver and the upstream are the environment: every lookup answers     *)
(* with any addresses of the zone (or fails), the client's own lookups     *)
(* are independent of the handler's, and the upstream answers with any     *)
(* outcome and any body of the origin.                                     *)
(***************************************************************************)
EXTENDS Integers, Sequences, FiniteSets

(***************************************************************************)
(* Bounds of the model.                                                    *)
(***************************************************************************)
\* Longest DNS answer (number of resolved socket addresses).
MaxAddrs == 2
\* Longest playlist (number of variants / segments).
MaxEntries == 2

(***************************************************************************)
(* Program constants.                                                      *)
(***************************************************************************)
HTTP_BODY_MAX_LENGTH == 50000000
HTTP_MAX_REDIRECTS == 1
PORT_HTTP == 80
PORT_HTTPS == 443

StatusOK == 200
StatusBadRequest == 400
StatusUnauthorized == 401
StatusInternalServerError == 500

\* DEFAULT_MUUUXY_SERVER_SCHEME and DEFAULT_MUUUXY_SERVER_DOMAIN.
ServerScheme == <<"http">>
ServerDomain == <<"localhost", ":", "3000">>

(***************************************************************************)
(* Text helpers.                                                           *)
(***************************************************************************)
Punct == {":", "/", ".", "?", "#", "=", "&", "%", " "}

IsWord(t) == t \notin Punct

\* Index of the first token of s at or after `from` that is in `set`;
\* Len(s) + 1 when there is none.
FirstIdx(s, set, from) ==
    LET hits == {i \in from..Len(s) : s[i] \in set}
    IN  IF hits = {} THEN Len(s) + 1
        ELSE CHOOSE i \in hits : \A j \in hits : i <= j

\* Index of the last token of s in lo..hi that is in `set`; 0 when none.
LastIdx(s, set, lo, hi) ==
    LET hits == {i \in lo..hi : s[i] \in set}
    IN  IF hits = {} THEN 0
        ELSE CHOOSE i \in hits : \A j \in hits : j <= i

Tokens(s) == {s[i] : i \in 1..Len(s)}

(***************************************************************************)
(* percent_encoding: utf8_percent_encode(.., NON_ALPHANUMERIC) and its     *)
(* inverse percent_decode.  Every byte that is not an ASCII alphanumeric   *)
(* becomes '%' followed by its two hex digits.                             *)
(***************************************************************************)
PctCode(c) ==
    CASE c = ":" -> "3A"
      [] c = "/" -> "2F"
      [] c = "." -> "2E"
      [] c = "?" -> "3F"
      [] c = "#" -> "23"
      [] c = "=" -> "3D"
      [] c = "&" -> "26"
      [] c = "%" -> "25"
      [] c = " " -> "20"

PctCodes == {PctCode(c) : c \in Punct}

PctChar(h) == CHOOSE c \in Punct : PctCode(c) = h

RECURSIVE utf8_percent_encode(_)
utf8_percent_encode(s) ==
    IF s = <<>> THEN <<>>
    ELSE (IF IsWord(Head(s)) THEN <<Head(s)>> ELSE <<"%", PctCode(Head(s))>>)
         \o utf8_percent_encode(Tail(s))

RECURSIVE percent_decode(_)
percent_decode(s) ==
    IF s = <<>> THEN <<>>
    ELSE IF Head(s) = "%" /\ Len(s) >= 2 /\ s[2] \in PctCodes
         THEN <<PctChar(s[2])>> \o percent_decode(Tail(Tail(s)))
         ELSE <<Head(s)>> \o percent_decode(Tail(s))

(***************************************************************************)
(* http::Uri::from_str (the axum/http crate), as used on the `url`         *)
(* parameter: the result, and the scheme and host it exposes.  The scheme  *)
(* "none" and hasHost = FALSE stand for Option::None.                      *)
(***************************************************************************)
UriErr == [ok |-> FALSE, scheme |-> "none", hasHost |-> FALSE, host |-> <<>>]

\* Authority::host: the authority without its ":port".
AuthorityHost(auth) == SubSeq(auth, 1, FirstIdx(auth, {":"}, 1) - 1)

UriFromStr(s) ==
    IF s = <<>> THEN UriErr                                   \* ErrorKind::Empty
    ELSE IF " " \in Tokens(s) THEN UriErr                     \* InvalidUriChar
    ELSE IF s[1] = "/"
         THEN [ok |-> TRUE, scheme |-> "none",
               hasHost |-> FALSE, host |-> <<>>]              \* origin form
    ELSE LET hasScheme == /\ Len(s) >= 4
                          /\ IsWord(s[1])
                          /\ s[2] = ":" /\ s[3] = "/" /\ s[4] = "/"
             rest == IF hasScheme THEN SubSeq(s, 5, Len(s)) ELSE s
             authLen == FirstIdx(rest, {"/", "?", "#"}, 1) - 1
             auth == SubSeq(rest, 1, authLen)
         IN  IF ~hasScheme
             THEN IF authLen # Len(rest) THEN UriErr          \* InvalidFormat
                  ELSE [ok |-> TRUE, scheme |-> "none", hasHost |-> TRUE,
                        host |-> AuthorityHost(auth)]         \* authority form
             ELSE IF authLen = 0 THEN UriErr                  \* InvalidFormat
             ELSE [ok |-> TRUE, scheme |-> s[1], hasHost |-> TRUE,
                   host |-> AuthorityHost(auth)]

(***************************************************************************)
(* url::Url::parse and Url's Display (the serialization).  A reference     *)
(* without a scheme is Err(RelativeUrlWithoutBase).  For the special       *)
(* schemes the serialization is normalised: an empty path becomes "/".     *)
(* (Texts of the model are lower-case, carry no port and no dot segments,  *)
(* so the other normalisations of the parser are the identity on them.)    *)
(*   ser       the serialization                                          *)
(*   pathStart index in ser of the path's first "/"                        *)
(*   pathEnd   index in ser of the path's last token                       *)
(***************************************************************************)
SpecialSchemes == {"http", "https", "ftp"}

UrlErr == [ok |-> FALSE, ser |-> <<>>, pathStart |-> 0, pathEnd |-> 0]

UrlParse(s) ==
    IF ~(Len(s) >= 2 /\ IsWord(s[1]) /\ s[2] = ":")
    THEN UrlErr                                      \* RelativeUrlWithoutBase
    ELSE IF s[1] \notin SpecialSchemes
    THEN [ok |-> TRUE, ser |-> s, pathStart |-> 0, pathEnd |-> 0]
    ELSE IF ~(Len(s) >= 5 /\ s[3] = "/" /\ s[4] = "/" /\ s[5] \notin {"/", "?", "#"})
    THEN UrlErr                                      \* EmptyHost
    ELSE LET pStart == FirstIdx(s, {"/", "?", "#"}, 5)
             pStop == FirstIdx(s, {"?", "#"}, 5)    \* first token after the path
             head == SubSeq(s, 1, pStart - 1)
             path == SubSeq(s, pStart, pStop - 1)
             after == SubSeq(s, pStop, Len(s))
             npath == IF path = <<>> THEN <<"/">> ELSE path
         IN  [ok |-> TRUE,
              ser |-> head \o npath \o after,
              pathStart |-> pStart,
              pathEnd |-> pStart + Len(npath) - 1]


(***************************************************************************)
(* PathSegmentsMut::pop (url crate), applied to a parsed special-scheme    *)
(* URL.  While the segments are borrowed, the query and fragment are taken *)
(* off the serialization; pop truncates the serialization at the last '/'  *)
(* found after the path's first slash (or right after that first slash     *)
(* when there is none); dropping the borrow restores query and fragment.   *)
(***************************************************************************)
\* A resolution that forgets to drop the final segment.
PathSegmentsKeepAll(u) == u

PathSegmentsPop(u) ==
    LET head == SubSeq(u.ser, 1, u.pathEnd)
        after == SubSeq(u.ser, u.pathEnd + 1, Len(u.ser))
        afterFirstSlash == u.pathStart + 1
        last == LastIdx(head, {"/"}, afterFirstSlash, Len(head))
        keep == IF afterFirstSlash > Len(head) THEN Len(head)
                ELSE IF last = 0 THEN u.pathStart
                ELSE last - 1
    IN  [u EXCEPT !.ser = SubSeq(head, 1, keep) \o after, !.pathEnd = keep]

(***************************************************************************)
(* The closure mapped over master.variants and media.segments: the         *)
(* absolute URL computed for a child URI, and the URI written back.        *)
(***************************************************************************)
\* `let uri: String = match Url::parse(&item_uri) { .. }`
AbsoluteUri(item_uri, url_to_proxy) ==
    LET parsed == UrlParse(item_uri)
    IN  IF parsed.ok THEN parsed.ser
        ELSE PathSegmentsPop(UrlParse(url_to_proxy)).ser \o <<"/">> \o item_uri

\* `item.uri = format!("{}://{}/proxy?key={}&url={}", ..)`
RewriteUri(item_uri, url_to_proxy, key, scheme, domain) ==
    scheme \o <<":", "/", "/">> \o domain
        \o <<"/", "proxy", "?", "key", "=">> \o key
        \o <<"&", "url", "=">>
        \o utf8_percent_encode(AbsoluteUri(item_uri, url_to_proxy))

(***************************************************************************)
(* Playlists (m3u8::Playlist).  A master playlist owns its variants and    *)
(* its alternative renditions (EXT-X-MEDIA, each with a URI); a media      *)
(* playlist owns its segments, each with a URI and an optional key URI     *)
(* (EXT-X-KEY; <<>> is None).  A body that does not parse is "binary".     *)
(***************************************************************************)
Binary == [kind |-> "binary"]

MasterPlaylist(variants, alternatives) ==
    [kind |-> "master", variants |-> variants, alternatives |-> alternatives]

MediaPlaylist(segments) == [kind |-> "media", segments |-> segments]

MediaSegment(uri, keyUri) == [uri |-> uri, key |-> keyUri]

\* The `match playlist { .. }` of the handler: only variants[i].uri and
\* segments[i].uri are assigned; every other field is moved through.
RewritePlaylist(p, url_to_proxy, key, scheme, domain) ==
    IF p.kind = "master"
    THEN [p EXCEPT !.variants =
            [i \in DOMAIN p.variants |->
                RewriteUri(p.variants[i], url_to_proxy, key, scheme, domain)]]
    ELSE [p EXCEPT !.segments =
            [i \in DOMAIN p.segments |->
                [p.segments[i] EXCEPT !.uri =
                    RewriteUri(p.segments[i].uri, url_to_proxy, key, scheme, domain)]]]

(***************************************************************************)
(* Addresses (std::net::IpAddr) and the predicates of the address guard.   *)
(***************************************************************************)
V4(a, b, c, d) == [v |-> 4, o |-> <<a, b, c, d>>]
V6(s) == [v |-> 6, o |-> s]

Ipv4IsLoopback(o) == o[1] = 127
Ipv4IsPrivate(o) ==
    \/ o[1] = 10
    \/ o[1] = 172 /\ o[2] >= 16 /\ o[2] <= 31
    \/ o[1] = 192 /\ o[2] = 168
Ipv4IsLinkLocal(o) == o[1] = 169 /\ o[2] = 254
Ipv4IsMulticast(o) == o[1] >= 224 /\ o[1] <= 239
Ipv4IsBroadcast(o) == o = <<255, 255, 255, 255>>
Ipv4IsUnspecified(o) == o = <<0, 0, 0, 0>>

Ipv6IsLoopback(s) == s = <<0, 0, 0, 0, 0, 0, 0, 1>>
\* (segments()[0] & 0xff00) == 0xff00
Ipv6IsMulticast(s) == s[1] \div 256 = 255
Ipv6IsUnspecified(s) == s = <<0, 0, 0, 0, 0, 0, 0, 0>>

\* The two `if` conditions of the loop over the resolved addresses.
GuardForbids(ip) ==
    IF ip.v = 4
    THEN \/ Ipv4IsLoopback(ip.o)
         \/ Ipv4IsPrivate(ip.o)
         \/ Ipv4IsLinkLocal(ip.o)
         \/ Ipv4IsMulticast(ip.o)
         \/ Ipv4IsBroadcast(ip.o)
         \/ Ipv4IsUnspecified(ip.o)
    ELSE \/ Ipv6IsLoopback(ip.o)
         \/ Ipv6IsMulticast(ip.o)
         \/ Ipv6IsUnspecified(ip.o)

\* A guard that looks at the first resolved address only.
GuardRejectsFirstOnly(resolved) == GuardForbids(resolved[1])

\* `for addr in addrs { .. return 400 .. }`: some address is forbidden.
GuardRejects(resolved) == \E i \in DOMAIN resolved : GuardForbids(resolved[i])

\* A key check that only asks for a non-empty key.
KeyIsInvalidNonEmptyOnly(key, secret) == key = <<>>

\* `params.key != state.key`
KeyIsInvalid(key, secret) == key # secret


(***************************************************************************)
(* Inputs: the texts, addresses and bodies the requests and the            *)
(* environment are drawn from.                                             *)
(***************************************************************************)
Secret == <<"SECRET">>
\* MUUUXY_SERVER_KEY may be set to the empty string.
Secrets == {Secret, <<>>}
Keys == {<<>>, Secret, <<"wrong">>}

HttpsPrefix == <<"https", ":", "/", "/", "ex", ".", "com">>
\* https://ex.com/a/b/master.m3u8
UrlTwoDirs == HttpsPrefix \o <<"/", "a", "/", "b", "/", "master", ".", "m3u8">>
\* https://ex.com/master.m3u8
UrlOneSegment == HttpsPrefix \o <<"/", "master", ".", "m3u8">>
\* https://ex.com/a/master.m3u8?t=1
UrlWithQuery == HttpsPrefix \o <<"/", "a", "/", "master", ".", "m3u8", "?", "t", "=", "1">>
\* https://ex.com/a/master.m3u8#f
UrlWithFragment == HttpsPrefix \o <<"/", "a", "/", "master", ".", "m3u8", "#", "f">>
\* http://ex.com/a/master.m3u8
UrlPlainHttp == <<"http", ":", "/", "/", "ex", ".", "com", "/", "a", "/", "master", ".", "m3u8">>
\* ftp://ex.com/x
UrlFtp == <<"ftp", ":", "/", "/", "ex", ".", "com", "/", "x">>
\* ex.com            (authority form: a host, no scheme)
UrlNoScheme == <<"ex", ".", "com">>
\* /a/b              (origin form: no host)
UrlNoHost == <<"/", "a", "/", "b">>
\* "not a url"       (does not parse)
UrlUnparsable == <<"not", " ", "a", " ", "url">>

Urls == {<<>>, UrlTwoDirs, UrlOneSegment, UrlWithQuery, UrlWithFragment,
         UrlPlainHttp, UrlFtp, UrlNoScheme, UrlNoHost, UrlUnparsable}

\* seg1.ts
ChildRelative == <<"seg1", ".", "ts">>
\* https://cdn.com/v/hi.m3u8
ChildAbsolute == <<"https", ":", "/", "/", "cdn", ".", "com", "/", "v", "/", "hi", ".", "m3u8">>
\* https://cdn.com   (absolute, empty path)
ChildAbsoluteNoPath == <<"https", ":", "/", "/", "cdn", ".", "com">>
\* audio/en.m3u8
ChildRendition == <<"audio", "/", "en", ".", "m3u8">>
\* key.bin
ChildKey == <<"key", ".", "bin">>

Children == {ChildRelative, ChildAbsolute, ChildAbsoluteNoPath}

SeqsUpTo(S, n) == UNION {[1..k -> S] : k \in 1..n}

MasterPlaylists ==
    {MasterPlaylist(vs, alts) :
        vs \in SeqsUpTo(Children, MaxEntries), alts \in {<<>>, <<ChildRendition>>}}

MediaPlaylists ==
    {MediaPlaylist(segs) :
        segs \in SeqsUpTo({MediaSegment(u, k) :
                              u \in Children, k \in {<<>>, ChildKey}}, MaxEntries)}

BodyLengths == {1200, HTTP_BODY_MAX_LENGTH, HTTP_BODY_MAX_LENGTH + 1}

Body(len, content) == [len |-> len, content |-> content]

NoBody == Body(0, [kind |-> "none"])

\* Every body of the bounds: any length, binary or any playlist.
AllBodies ==
    {Body(len, c) : len \in BodyLengths,
                    c \in {Binary} \cup MasterPlaylists \cup MediaPlaylists}

\* A few bodies: binary or one playlist of each kind, of any length.
FewBodies ==
    {Body(len, c) : len \in BodyLengths,
                    c \in {Binary,
                           MasterPlaylist(<<ChildRelative, ChildAbsolute>>, <<ChildRendition>>),
                           MediaPlaylist(<<MediaSegment(ChildRelative, ChildKey)>>)}}

PublicV4 == V4(93, 184, 216, 34)
LoopbackV4 == V4(127, 0, 0, 1)
PublicV6 == V6(<<8193, 3512, 0, 0, 0, 0, 0, 1>>)

\* One address of every class the guard tells apart, and two it lets through.
AllAddresses ==
    {PublicV4, LoopbackV4,
     V4(10, 0, 0, 5), V4(172, 16, 0, 1), V4(192, 168, 1, 1),
     V4(169, 254, 169, 254), V4(224, 0, 0, 1),
     V4(255, 255, 255, 255), V4(0, 0, 0, 0),
     PublicV6,
     V6(<<0, 0, 0, 0, 0, 0, 0, 1>>),
     V6(<<65282, 0, 0, 0, 0, 0, 0, 1>>),
     V6(<<0, 0, 0, 0, 0, 0, 0, 0>>)}

FewAddresses == {PublicV4, LoopbackV4}

\* The environment is named in the state and looked up here.
ZoneAddresses(z) == IF z = "all" THEN AllAddresses ELSE FewAddresses
OriginBodies(o) == IF o = "all" THEN AllBodies ELSE FewBodies

(***************************************************************************)
(* State.                                                                  *)
(***************************************************************************)
VARIABLES
    state,      \* the shared State: key, scheme, domain
    params,     \* ProxyParams: url, key
    pc,         \* position of the handler task
    status,     \* status of the response (0: no response yet)
    port,       \* the port implied by the scheme (0: not decided)
    addrs,      \* the addresses lookup_host returned
    fetches,    \* number of client.get(..).send() calls issued
    connected,  \* addresses the outbound client opened a connection to
    upstream,   \* what the upstream answered: outcome, content-type header
    body,       \* the body read from the upstream
    out,        \* the body of the response
    zone,       \* environment: which addresses the resolver may answer with
    origin      \* environment: which bodies the upstream may serve

vars == <<state, params, pc, status, port, addrs, fetches, connected,
          upstream, body, out, zone, origin>>

NoUpstream == [outcome |-> "none", hasContentType |-> FALSE]

InitRequest ==
    /\ state \in {[key |-> k, scheme |-> ServerScheme, domain |-> ServerDomain] :
                     k \in Secrets}
    /\ params \in {[url |-> u, key |-> k] : u \in Urls, k \in Keys}
    /\ pc = "validate"
    /\ status = 0
    /\ port = 0
    /\ addrs = <<>>
    /\ fetches = 0
    /\ connected = {}
    /\ upstream = NoUpstream
    /\ body = NoBody
    /\ out = [kind |-> "none"]

Init == InitRequest /\ zone = "all" /\ origin = "few"

InitRewrite == InitRequest /\ zone = "few" /\ origin = "all"

\* `return response_builder.status(..).body(..)`
Respond(code, content) ==
    /\ pc' = "done"
    /\ status' = code
    /\ out' = content

\* An `unwrap()` on Err or None: the task ends, no response is written.
Panic ==
    /\ pc' = "panic"
    /\ UNCHANGED <<status, out>>

Empty == [kind |-> "empty"]

(***************************************************************************)
(* Lines 93-145: the key and parameter checks, Uri::from_str, the host and *)
(* the port implied by the scheme.                                         *)
(***************************************************************************)
Validate ==
    /\ pc = "validate"
    /\ LET uri == UriFromStr(params.url)
       IN  IF KeyIsInvalid(params.key, state.key)
           THEN Respond(StatusUnauthorized, Empty) /\ port' = port
           ELSE IF params.url = <<>>
           THEN Respond(StatusBadRequest, Empty) /\ port' = port
           ELSE IF params.key = <<>>
           THEN Respond(StatusBadRequest, Empty) /\ port' = port
           ELSE IF ~uri.ok
           THEN Panic /\ port' = port
           ELSE IF ~uri.hasHost
           THEN Panic /\ port' = port
           ELSE IF uri.scheme = "http"
           THEN pc' = "lookup" /\ port' = PORT_HTTP /\ UNCHANGED <<status, out>>
           ELSE IF uri.scheme = "https"
           THEN pc' = "lookup" /\ port' = PORT_HTTPS /\ UNCHANGED <<status, out>>
           ELSE Respond(StatusBadRequest, Empty) /\ port' = port
    /\ UNCHANGED <<state, params, addrs, fetches, connected, upstream, body,
                   zone, origin>>

(***************************************************************************)
(* Lines 147-222: lookup_host, the guard over every resolved address, and  *)
(* the construction of the client.                                         *)
(***************************************************************************)
Lookup ==
    /\ pc = "lookup"
    /\ \/ /\ Panic                          \* lookup_host(..).await.unwrap()
          /\ addrs' = addrs
       \/ \E resolved \in SeqsUpTo(ZoneAddresses(zone), MaxAddrs) :
            /\ addrs' = resolved
            /\ IF GuardRejects(resolved)
               THEN Respond(StatusBadRequest, Empty)
               ELSE pc' = "send" /\ UNCHANGED <<status, out>>
    /\ UNCHANGED <<state, params, port, fetches, connected, upstream, body,
                   zone, origin>>

(***************************************************************************)
(* Lines 224-251: client.get(&url_to_proxy).send().await.  The client      *)
(* resolves the host of every URL it requests by itself and follows at     *)
(* most HTTP_MAX_REDIRECTS redirects; https_only(true) refuses a URL that  *)
(* is not https before connecting.  `hops` is the number of redirect       *)
(* answers the upstream chain gives, `chain` the addresses connected to.   *)
(***************************************************************************)
SendOutcomes == {"connect_error", "timeout", "status", "ok"}

Send ==
    /\ pc = "send"
    /\ fetches' = fetches + 1
    /\ IF port # PORT_HTTPS
       THEN /\ upstream' = [outcome |-> "https_only", hasContentType |-> FALSE]
            /\ connected' = connected
            /\ Respond(StatusInternalServerError, Empty)
       ELSE \E hops \in 0..(HTTP_MAX_REDIRECTS + 1) :
            \E chain \in [1..(IF hops > HTTP_MAX_REDIRECTS
                              THEN HTTP_MAX_REDIRECTS + 1 ELSE hops + 1)
                                -> ZoneAddresses(zone)] :
            \E last \in SendOutcomes, ct \in BOOLEAN :
              LET outcome == IF hops > HTTP_MAX_REDIRECTS
                             THEN "too_many_redirects" ELSE last
              IN  /\ connected' =
                        IF outcome = "connect_error"
                        THEN {chain[i] : i \in 1..(Len(chain) - 1)}
                        ELSE {chain[i] : i \in 1..Len(chain)}
                  /\ upstream' = [outcome |-> outcome,
                                  hasContentType |-> (outcome = "ok" /\ ct)]
                  /\ IF outcome = "ok"
                     THEN pc' = "bytes" /\ UNCHANGED <<status, out>>
                     ELSE Respond(StatusInternalServerError, Empty)
    /\ UNCHANGED <<state, params, port, addrs, body, zone, origin>>

(***************************************************************************)
(* Lines 253-428: response.bytes().await, the ceiling on the body, the     *)
(* playlist parse, the rewrite and the response.                           *)
(***************************************************************************)
ReadBody ==
    /\ pc = "bytes"
    /\ \/ /\ Panic                          \* response.bytes().await.unwrap()
          /\ upstream' = [upstream EXCEPT !.outcome = "body_error"]
          /\ body' = body
       \/ \E b \in OriginBodies(origin) :
            /\ body' = b
            /\ upstream' = upstream
            /\ IF b.len > HTTP_BODY_MAX_LENGTH
               THEN Respond(StatusInternalServerError, Empty)
               ELSE IF b.content.kind = "binary"
               THEN Respond(StatusOK, b.content)
               ELSE IF ~upstream.hasContentType
               THEN Respond(StatusInternalServerError, Empty)
               ELSE Respond(StatusOK,
                            RewritePlaylist(b.content, params.url, params.key,
                                            state.scheme, state.domain))
    /\ UNCHANGED <<state, params, port, addrs, fetches, connected, zone, origin>>

Next == Validate \/ Lookup \/ Send \/ ReadBody

Spec == Init /\ [][Next]_vars

SpecRewrite == InitRewrite /\ [][Next]_vars


(***************************************************************************)
(* Vocabulary of the claims.                                               *)
(***************************************************************************)
Terminated == pc \in {"done", "panic"}

KeyMatches == params.key = state.key

IsPlaylist(p) == p.kind \in {"master", "media"}

\* A 200 response that carries a rewritten playlist.
RewrittenResponse ==
    pc = "done" /\ status = StatusOK /\ IsPlaylist(body.content) /\ IsPlaylist(out)

\* The ordered child entries of a playlist: variant URIs or segment URIs.
EntryUris(p) ==
    IF p.kind = "master" THEN p.variants
    ELSE [i \in DOMAIN p.segments |-> p.segments[i].uri]

\* Every URI a playlist carries: its entries, its alternative renditions,
\* the keys of its segments.
PlaylistUris(p) ==
    IF p.kind = "master"
    THEN {p.variants[i] : i \in DOMAIN p.variants}
            \cup {p.alternatives[i] : i \in DOMAIN p.alternatives}
    ELSE {p.segments[i].uri : i \in DOMAIN p.segments}
            \cup {p.segments[i].key : i \in {j \in DOMAIN p.segments :
                                                 p.segments[j].key # <<>>}}

\* The value of the last query parameter of a URI: the text after its last "=".
UrlParam(uri) == SubSeq(uri, LastIdx(uri, {"="}, 1, Len(uri)) + 1, Len(uri))

ProxyPrefix ==
    state.scheme \o <<":", "/", "/">> \o state.domain
        \o <<"/", "proxy", "?", "key", "=">> \o params.key \o <<"&", "url", "=">>

\* <publicScheme>://<publicAuthority>/proxy?key=<sharedKey>&url=<encoded absolute URL>
IsProxyUri(uri) ==
    /\ Len(uri) > Len(ProxyPrefix)
    /\ SubSeq(uri, 1, Len(ProxyPrefix)) = ProxyPrefix
    /\ LET rest == SubSeq(uri, Len(ProxyPrefix) + 1, Len(uri))
       IN  /\ rest = utf8_percent_encode(percent_decode(rest))
           /\ UrlParse(percent_decode(rest)).ok

\* Directory-relative resolution as the specification words it: the
\* target's scheme and authority, its path without the final segment, one
\* "/" and the child URI; nothing of the target's query or fragment.
DirectoryResolve(child, target) ==
    LET u == UrlParse(target)
        base == SubSeq(u.ser, 1, u.pathStart - 1)
        path == SubSeq(u.ser, u.pathStart, u.pathEnd)
        dir == SubSeq(path, 1, LastIdx(path, {"/"}, 1, Len(path)) - 1)
    IN  base \o dir \o <<"/">> \o child

IsRelative(child) == ~UrlParse(child).ok

\* The absolute URL of a child entry: itself when absolute, else resolved.
AbsoluteOf(child, target) ==
    IF IsRelative(child) THEN DirectoryResolve(child, target) ELSE child

\* The addresses the claims call forbidden.
ListedForbidden(ip) ==
    \/ /\ ip.v = 4
       /\ \/ Ipv4IsLoopback(ip.o) \/ Ipv4IsPrivate(ip.o) \/ Ipv4IsLinkLocal(ip.o)
          \/ Ipv4IsMulticast(ip.o) \/ Ipv4IsBroadcast(ip.o) \/ Ipv4IsUnspecified(ip.o)
    \/ /\ ip.v = 6
       /\ \/ Ipv6IsLoopback(ip.o) \/ Ipv6IsMulticast(ip.o) \/ Ipv6IsUnspecified(ip.o)

\* https://ex.com/a/b/seg1.ts and https://ex.com/a/seg1.ts
ExampleUnderB == HttpsPrefix \o <<"/", "a", "/", "b", "/", "seg1", ".", "ts">>
ExampleUnderA == HttpsPrefix \o <<"/", "a", "/", "seg1", ".", "ts">>

(***************************************************************************)
(* The claims.                                                             *)
(***************************************************************************)

\* C1: a request whose `url` or `key` parameter is the empty string is
\* answered with status 400, whatever the other parameter and whatever the
\* configured secret.
C1_EmptyParameterIs400 ==
    (pc # "validate" /\ (params.url = <<>> \/ params.key = <<>>))
        => (pc = "done" /\ status = StatusBadRequest)

\* C2: a request whose non-empty `key` differs from the configured secret
\* is answered with status 401, for every `url`, and goes no further: it
\* is never accepted because its key is non-empty.
C2_KeyMismatchIs401 ==
    (pc # "validate" /\ params.key # <<>> /\ params.key # state.key)
        => (pc = "done" /\ status = StatusUnauthorized /\ fetches = 0)

\* C2 witness: a well-formed target asked for with a wrong non-empty key
\* has been answered.
C2_Witness ==
    /\ pc = "done"
    /\ params.url = UrlTwoDirs
    /\ params.key = <<"wrong">>
    /\ state.key = Secret
    /\ status = StatusUnauthorized

\* C3: once the host has resolved, if at least one resolved address is
\* forbidden (at any position, also beside allowed addresses), the response
\* status is 400 and no outbound fetch is issued.
C3_ForbiddenAddressIs400 ==
    (\E i \in DOMAIN addrs : ListedForbidden(addrs[i]))
        => (pc = "done" /\ status = StatusBadRequest /\ fetches = 0 /\ connected = {})

\* C3 witness: an answer whose first address is allowed and whose second
\* is forbidden has been rejected.
C3_Witness ==
    /\ Len(addrs) = 2
    /\ ~ListedForbidden(addrs[1])
    /\ ListedForbidden(addrs[2])
    /\ pc = "done"
    /\ status = StatusBadRequest

\* C4: with a matching key and a non-empty `url`, a target that cannot be
\* parsed, has no host, has no scheme or a scheme other than http/https, or
\* whose host fails to resolve, is answered with status 400 (the handler
\* never ends without a response) and no outbound fetch is issued.
C4_TargetErrorIs400 ==
    LET uri == UriFromStr(params.url)
        badTarget == ~uri.ok \/ ~uri.hasHost \/ uri.scheme \notin {"http", "https"}
        resolutionFailed == pc = "panic" /\ port # 0 /\ addrs = <<>>
    IN  (Terminated /\ KeyMatches /\ params.url # <<>>
            /\ (badTarget \/ resolutionFailed))
            => (pc = "done" /\ status = StatusBadRequest /\ fetches = 0)

\* C5: in a 200 response that carries a playlist, every URI of the
\* playlist (variants, segments and every other URI-bearing entry) has the
\* form <publicScheme>://<publicAuthority>/proxy?key=<sharedKey>&url=<encoded
\* absolute URL>.
C5_EveryUriIsProxied ==
    RewrittenResponse => \A uri \in PlaylistUris(out) : IsProxyUri(uri)

\* C6: the rewritten playlist has as many entries as the fetched one, in
\* the same order, and the `url` parameter of entry i percent-decodes to
\* the absolute URL of the original entry i (the child URI itself when
\* absolute, otherwise its resolution against the target URL).
C6_RewriteRoundTrip ==
    RewrittenResponse =>
        /\ Len(EntryUris(out)) = Len(EntryUris(body.content))
        /\ \A i \in DOMAIN EntryUris(body.content) :
              percent_decode(UrlParam(EntryUris(out)[i]))
                  = AbsoluteOf(EntryUris(body.content)[i], params.url)

\* C7 as stated: for the target https://ex.com/a/b/master.m3u8 the child
\* seg1.ts is rewritten with the absolute URL https://ex.com/a/seg1.ts.
C7_ExampleResolvesUnderA ==
    (RewrittenResponse /\ params.url = UrlTwoDirs) =>
        \A i \in DOMAIN EntryUris(body.content) :
            EntryUris(body.content)[i] = ChildRelative
                => percent_decode(UrlParam(EntryUris(out)[i])) = ExampleUnderA

\* C7 amended: for the target https://ex.com/a/b/master.m3u8 the child
\* seg1.ts is rewritten with the absolute URL https://ex.com/a/b/seg1.ts
\* (only the final segment master.m3u8 is dropped).
C7_ExampleResolvesUnderB ==
    (RewrittenResponse /\ params.url = UrlTwoDirs) =>
        \A i \in DOMAIN EntryUris(body.content) :
            EntryUris(body.content)[i] = ChildRelative
                => percent_decode(UrlParam(EntryUris(out)[i])) = ExampleUnderB

\* C7 witness: a playlist fetched from https://ex.com/a/b/master.m3u8 that
\* lists seg1.ts has been rewritten and returned.
C7_Witness ==
    /\ RewrittenResponse
    /\ params.url = UrlTwoDirs
    /\ \E i \in DOMAIN EntryUris(body.content) :
          /\ EntryUris(body.content)[i] = ChildRelative
          /\ IsProxyUri(EntryUris(out)[i])

\* C8: at most one outbound fetch is issued, and a fetch that fails to
\* connect, times out (before or while the body is read), returns a status
\* other than 200 or returns a body longer than the ceiling is answered
\* with status 500: the handler still produces a response.
C8_UpstreamFailureIs500 ==
    /\ fetches <= 1
    /\ (Terminated /\ fetches = 1
            /\ \/ upstream.outcome \in {"connect_error", "timeout", "status", "body_error"}
               \/ body.len > HTTP_BODY_MAX_LENGTH)
        => (pc = "done" /\ status = StatusInternalServerError)

\* C9: every child URI that does not parse as an absolute URL is resolved,
\* for every valid target, to the target's scheme and authority, the
\* target's path without its final segment, a single "/" and the child URI,
\* with nothing of the target's query string or fragment before the child.
C9_RelativeResolution ==
    RewrittenResponse =>
        \A i \in DOMAIN EntryUris(body.content) :
            IsRelative(EntryUris(body.content)[i])
                => percent_decode(UrlParam(EntryUris(out)[i]))
                       = DirectoryResolve(EntryUris(body.content)[i], params.url)

\* C10: within one request, every address the outbound fetch connects to
\* (first connection or followed redirect) is an address the guard
\* examined and allowed during that request's validation.
C10_ConnectsOnlyToCheckedAddresses ==
    \A a \in connected :
        /\ \E i \in DOMAIN addrs : addrs[i] = a
        /\ ~GuardForbids(a)

=============================================================================
